---- MODULE Spec2Model ----
(***************************************************************************)
(* Batch-assembly state machine of the CloudCompare file watcher           *)
(* (src/watcher.js): arrival handlers, completion timer, finalize run.     *)
(*                                                                         *)
(* A file name is a sequence of one-character strings; a file path is      *)
(* identified with its file name (every path is path.join(INPUT_DIR,name)).*)
(* JavaScript null and the empty string are both falsy and are both        *)
(* written <<>>; a null timer handle is 0.                                  *)
(*                                                                         *)
(* One action is one run-to-completion slice of the event loop: a handler  *)
(* from its callback up to its first await on real I/O, or the             *)
(* continuation of an I/O completion up to the next such await.            *)
(***************************************************************************)
EXTENDS Integers, Sequences, FiniteSets, TLC

(***************************************************************************)
(* Bound of the environment: the number of files dropped into the intake   *)
(* directory (those present at start included) plus the number of I/O      *)
(* calls that fail on a file that exists.                                  *)
(***************************************************************************)
MaxEnvEvents == 3

(***************************************************************************)
(* Time: one tick is TickMs; the completion timer is armed with TimeoutMs. *)
(***************************************************************************)
TickMs == 5000
TimeoutMs == 10000
TimeoutTicks == TimeoutMs \div TickMs

\* process.env.BATCH_TIMEOUT_MS as the operator of the watcher has set it
EnvBatchTimeoutMs == 15000

\* parseInt(process.env.BATCH_TIMEOUT_MS) || 10000
BATCH_TIMEOUT_MS == IF EnvBatchTimeoutMs > 0 THEN EnvBatchTimeoutMs ELSE 10000

NULL == <<>>
NoTimer == 0

(***************************************************************************)
(* File names.                                                             *)
(***************************************************************************)
DotBin == <<".", "b", "i", "n">>
DotTxt == <<".", "t", "x", "t">>
Anchor18 == <<"1", "_", "8", "_", "q">> \o DotBin
Anchor19 == <<"1", "_", "9", "_", "q">> \o DotBin
BadAnchor == <<"x">> \o DotBin
Member18 == <<"1", "_", "8", "_", "1">> \o DotTxt
Member19 == <<"1", "_", "9", "_", "1">> \o DotTxt
Files == {Anchor18, Anchor19, BadAnchor, Member18, Member19}

\* the files of the end-to-end scenario of test-sf-tracking.js
Zeros4 == <<"0", "0", "0", "0">>
Key25 == Zeros4 \o <<"2", "5", "_", "1", "8">>
ScenarioAnchor == Key25 \o <<"_", "q">> \o DotBin
ScenarioMember(n) == Key25 \o <<"_", "0", "0", "0", n>> \o DotTxt
ScenarioMembers == {ScenarioMember(n) : n \in {"1", "2", "3"}}
ScenarioFiles == {ScenarioAnchor} \cup ScenarioMembers

Digits == {"0", "1", "2", "3", "4", "5", "6", "7", "8", "9"}

\* String.prototype.endsWith
EndsWith(s, suf) ==
    /\ Len(s) >= Len(suf)
    /\ SubSeq(s, Len(s) - Len(suf) + 1, Len(s)) = suf

\* length of the run of digits of s that starts at position i (1-based)
RECURSIVE DigitRun(_, _)
DigitRun(s, i) ==
    IF i <= Len(s) /\ s[i] \in Digits THEN 1 + DigitRun(s, i + 1) ELSE 0

\* variant: the pattern does without the "_" that ends the second run
extractBinPrefix_NoTail(filename) ==
    LET n1 == DigitRun(filename, 1)
        n2 == DigitRun(filename, n1 + 2)
        end == n1 + 1 + n2
    IN  IF /\ n1 >= 1
           /\ n1 + 1 <= Len(filename) /\ filename[n1 + 1] = "_"
           /\ n2 >= 1
        THEN SubSeq(filename, 1, end)
        ELSE NULL

\* filename.match(/^(\d+_\d+)_/): group 1, or NULL when there is no match
extractBinPrefix(filename) ==
    LET n1 == DigitRun(filename, 1)
        n2 == DigitRun(filename, n1 + 2)
        end == n1 + 1 + n2
    IN  IF /\ n1 >= 1
           /\ n1 + 1 <= Len(filename) /\ filename[n1 + 1] = "_"
           /\ n2 >= 1
           /\ end + 1 <= Len(filename) /\ filename[end + 1] = "_"
        THEN SubSeq(filename, 1, end)
        ELSE NULL

\* String.prototype.lastIndexOf("_"), 0-based, -1 when absent
lastIndexOf(s) ==
    LET hits == {i \in 1..Len(s) : s[i] = "_"}
    IN  IF hits = {} THEN -1 ELSE (CHOOSE i \in hits : \A j \in hits : j <= i) - 1

\* variant: the name is cut at its first "_"
txtPrefix_FirstSep(filename) ==
    LET hits == {i \in 1..Len(filename) : filename[i] = "_"}
    IN  IF hits = {} \/ lastIndexOf(filename) <= 0 THEN NULL
        ELSE SubSeq(filename, 1, (CHOOSE i \in hits : \A j \in hits : i <= j) - 1)

\* the prefix a .txt file name carries itself (everything before the last "_")
txtPrefix(filename) ==
    LET k == lastIndexOf(filename)
    IN  IF k > 0 THEN SubSeq(filename, 1, k) ELSE NULL

\* strict matching of a .txt name against a batch prefix (not called by the handlers)
matchesCurrentBatch(binPrefix, filename) ==
    IF binPrefix = NULL THEN FALSE
    ELSE IF lastIndexOf(filename) > 0 THEN txtPrefix(filename) = binPrefix
    ELSE FALSE

\* variant: the handlers match strictly, as matchesCurrentBatch does
shouldIncludeInBatch_Strict(binPrefix, filename) ==
    matchesCurrentBatch(binPrefix, filename)

\* the matching the handlers use: any .txt file once a batch has a prefix
shouldIncludeInBatch(binPrefix, filename) ==
    IF binPrefix = NULL THEN FALSE ELSE EndsWith(filename, DotTxt)

BinFiles == {f \in Files \cup ScenarioFiles : EndsWith(f, DotBin)}
TxtFiles == {f \in Files \cup ScenarioFiles : EndsWith(f, DotTxt)}

(***************************************************************************)
(* Lexicographic order of file names (Array.prototype.sort on strings).    *)
(* Characters are ranked by their UTF-16 code unit.                        *)
(***************************************************************************)
CharRank(c) ==
    CASE c = "." -> 46
      [] c = "0" -> 48 [] c = "1" -> 49 [] c = "2" -> 50 [] c = "3" -> 51
      [] c = "4" -> 52 [] c = "5" -> 53 [] c = "6" -> 54 [] c = "7" -> 55
      [] c = "8" -> 56 [] c = "9" -> 57
      [] c = "_" -> 95
      [] c = "a" -> 97 [] c = "b" -> 98 [] c = "i" -> 105 [] c = "l" -> 108
      [] c = "n" -> 110 [] c = "o" -> 111 [] c = "g" -> 103 [] c = "q" -> 113
      [] c = "s" -> 115 [] c = "t" -> 116 [] c = "x" -> 120
      [] OTHER -> 200

RECURSIVE StrLess(_, _)
StrLess(a, b) ==
    IF a = <<>> THEN b # <<>>
    ELSE IF b = <<>> THEN FALSE
    ELSE IF Head(a) = Head(b) THEN StrLess(Tail(a), Tail(b))
    ELSE CharRank(Head(a)) < CharRank(Head(b))

\* insert x into the sorted sequence s (after equal elements)
RECURSIVE SortInsert(_, _)
SortInsert(s, x) ==
    IF s = <<>> THEN <<x>>
    ELSE IF StrLess(x, Head(s)) THEN <<x>> \o s
    ELSE <<Head(s)>> \o SortInsert(Tail(s), x)

\* currentBatch.txtFiles.sort()
RECURSIVE SortFiles(_)
SortFiles(s) ==
    IF s = <<>> THEN <<>> ELSE SortInsert(SortFiles(SubSeq(s, 1, Len(s) - 1)), s[Len(s)])

Range(s) == {s[i] : i \in 1..Len(s)}

\* every ordering of a finite set (fs.readdir gives no order guarantee)
RECURSIVE Perms(_)
Perms(S) ==
    IF S = {} THEN {<<>>}
    ELSE UNION {{<<x>> \o p : p \in Perms(S \ {x})} : x \in S}


(***************************************************************************)
(* File contents.  A line is a sequence of whitespace-separated tokens; a  *)
(* blank line is <<>>.                                                     *)
(***************************************************************************)
\* a line of point data: three coordinates, then the SF value
PointLine(sf) == <<"-0.6", "-27.5", "-2.1", sf>>

\* Member19 holds no classifiable line: three fields only, and a last
\* field that is no number
Content(f) ==
    CASE f = Member18 -> << <<"-0.6", "-27.5", "-2.1", "1.000000">>,
                            <<>>,
                            <<"-1.2", "-28.1", "-3.1", "2.000000">> >>
      [] f = Member19 -> << <<"-4.5", "-31.4", "-6.4">>,
                            <<"-4.5", "-31.4", "-6.4", "n/a">> >>
      [] f = ScenarioMember("1") ->
            << PointLine("1.000000"), PointLine("2.000000"),
               PointLine("1.000000"), PointLine("3.000000") >>
      [] f = ScenarioMember("2") ->
            << PointLine("4.000000"), PointLine("5.000000"),
               PointLine("6.000000"), PointLine("7.000000") >>
      [] f = ScenarioMember("3") ->
            << PointLine("1.000000"), PointLine("2.000000"),
               PointLine("3.000000"), PointLine("1.000000") >>
      [] OTHER -> << <<"bin">> >>

\* content.split('\n').filter(line => line.trim())
RECURSIVE NonBlank(_)
NonBlank(lines) ==
    IF lines = <<>> THEN <<>>
    ELSE IF Head(lines) = <<>> THEN NonBlank(Tail(lines))
    ELSE <<Head(lines)>> \o NonBlank(Tail(lines))

\* the tokens of the model that are decimal numerals from end to end
NumericTokens ==
    {"1.000000", "2.000000", "3.000000", "4.000000", "5.000000", "6.000000",
     "7.000000", "8.000000", "9.000000", "2.6", "-0.6", "-27.5", "-2.1", "-1.2", "-28.1", "-3.1",
     "-4.5", "-31.4", "-6.4"}

\* parseFloat of a token, in units of one millionth, as <<value>>;
\* <<>> stands for NaN.  parseFloat converts the longest prefix that is a
\* numeral and ignores what follows it: "2abc" gives 2, "n/a" gives NaN
parseFloat(tok) ==
    CASE tok = "1.000000" -> <<1000000>>
      [] tok = "8.000000" -> <<8000000>>
      [] tok = "9.000000" -> <<9000000>>
      [] tok = "2.6" -> <<2600000>>
      [] tok = "2abc" -> <<2000000>>
      [] tok = "2.000000" -> <<2000000>>
      [] tok = "3.000000" -> <<3000000>>
      [] tok = "4.000000" -> <<4000000>>
      [] tok = "5.000000" -> <<5000000>>
      [] tok = "6.000000" -> <<6000000>>
      [] tok = "7.000000" -> <<7000000>>
      [] tok = "-0.6" -> <<-600000>> [] tok = "-27.5" -> <<-27500000>>
      [] tok = "-2.1" -> <<-2100000>> [] tok = "-1.2" -> <<-1200000>>
      [] tok = "-28.1" -> <<-28100000>> [] tok = "-3.1" -> <<-3100000>>
      [] tok = "-4.5" -> <<-4500000>> [] tok = "-31.4" -> <<-31400000>>
      [] tok = "-6.4" -> <<-6400000>>
      [] OTHER -> <<>>

\* Math.round: nearest integer, halves towards +infinity
MathRound(micro) == (micro + 500000) \div 1000000

\* the SF code of a line as <<code>>, or <<>> for JavaScript null
extractSFValue(line) ==
    IF Len(line) >= 4
    THEN LET v == parseFloat(line[Len(line)])
         IN  IF v = <<>> THEN <<>> ELSE <<MathRound(v[1])>>
    ELSE <<>>

\* variant: a code seen again overwrites its count instead of adding to it
countSFValues_NoAccumulate(lines) ==
    LET codes == {extractSFValue(lines[i])[1] :
                    i \in {j \in 1..Len(lines) : extractSFValue(lines[j]) # <<>>}}
    IN  [c \in codes |-> 1]

\* the tally of a merged text: SF code -> number of lines that carry it
countSFValues(lines) ==
    LET codes == {extractSFValue(lines[i])[1] :
                    i \in {j \in 1..Len(lines) : extractSFValue(lines[j]) # <<>>}}
    IN  [c \in codes |->
           Cardinality({i \in 1..Len(lines) : extractSFValue(lines[i]) = <<c>>})]

\* variant: updateSFTracking is called whatever the tally holds
HasSFValues_Always(lines) == TRUE

\* Object.keys(sfCounts).length > 0
HasSFValues(lines) == DOMAIN countSFValues(lines) # {}

\* Object.values(sfCounts).reduce((sum, count) => sum + count, 0)
RECURSIVE SumCounts(_, _)
SumCounts(sfCounts, codes) ==
    IF codes = {} THEN 0
    ELSE LET c == CHOOSE x \in codes : TRUE
         IN  sfCounts[c] + SumCounts(sfCounts, codes \ {c})

totalPoints(sfCounts) == SumCounts(sfCounts, DOMAIN sfCounts)

(***************************************************************************)
(* State.                                                                  *)
(***************************************************************************)
VARIABLES
    currentBatch,    \* [binPrefix, binFile, txtFiles, isProcessing]
    processedFiles,  \* the dedup set
    batchTimeout,    \* handle of the last timer armed, or NoTimer
    timers,          \* pending timers: set of [id, left]
    inputDir,        \* names present in INPUT_DIR
    binDir,          \* names present in BIN_DIR
    results,         \* RESULTS_DIR: prefix -> merged lines of <prefix>_result.txt
    tracking,        \* sf_tracking.json: prefix -> entry of <prefix>_result.txt
    phase,           \* "boot" | "startup" | "watching"
    run,             \* the processCurrentBatch call in progress
    pollList,        \* listing held by a poll callback awaiting fs.readdir
    sinceAccept,     \* ticks since the last member was accepted (-1: none yet)
    runsOfBatch,     \* finalize runs started for the batch now open
    active,          \* finalize runs in progress
    envEvents,       \* files dropped and I/O faults injected so far
    clock,           \* readings of new Date() taken so far
    interrupted      \* currentBatch as it was when the process last stopped

vars == <<currentBatch, processedFiles, batchTimeout, timers, inputDir, binDir,
          results, tracking, phase, run, pollList, sinceAccept, runsOfBatch,
          active, envEvents, clock, interrupted>>

\* the initial value of aiComment in updateSFTracking
DefaultComment == "Completed. No problem. Review GOOD"

\* a comment generateAIComment returned
GeneratedComment == "generated"

NoComment == "none"

\* no row has been sent to the sheet by this run
NoValues == [marks |-> <<>>, timeTaken |-> 0, comment |-> NoComment]

EmptyBatch == [binPrefix |-> NULL, binFile |-> NULL, txtFiles |-> <<>>,
               isProcessing |-> FALSE]

\* the locals of a run: unread are the members whose fs.readFile failed,
\* loaded is trackingData, priorTime the timestamp the loaded store held
\* for this batch's output file (0: none), threw whether generateAIComment
\* threw, configured whether SHEET_ID and SHEET_NAME were found set,
\* aiComment and prevTime the arguments of syncAnnotation (NoComment and 0
\* until they are computed); response and cleaned are the words of the raw
\* model response and of the comment cleanAIResponse makes of it, followed
\* where the text of the comment matters
IdleRun == [pc |-> "idle", by |-> "none", idx |-> 0, merged |-> <<>>,
            unread |-> {}, loaded |-> <<>>, priorTime |-> 0, currentTime |-> 0,
            threw |-> FALSE, configured |-> FALSE,
            aiComment |-> NoComment, prevTime |-> 0, report |-> "none",
            values |-> NoValues, sweep |-> {}, response |-> <<>>,
            cleaned |-> <<>>]

NoPoll == [pending |-> FALSE, files |-> {}]

\* the in-memory state the handlers read and write, as one record
Mem == [cb |-> currentBatch, pf |-> processedFiles, bt |-> batchTimeout,
        tm |-> timers, sa |-> sinceAccept, rb |-> runsOfBatch]

\* clearTimeout(h): a fired or null handle clears nothing
clearTimeout(tm, h) == {t \in tm : t.id # h}

\* setTimeout(cb, 10000): a fresh handle and the timer set with it pending
FreshId(tm) == CHOOSE i \in 1..(Cardinality(tm) + 1) : \A t \in tm : t.id # i

(***************************************************************************)
(* Arrival handlers.                                                       *)
(***************************************************************************)
\* variant: an anchor that arrives while a batch has a key is ignored
handleBinFile_KeepFirst(m, filePath) ==
    IF filePath \in m.pf THEN m
    ELSE IF m.cb.isProcessing \/ m.cb.binPrefix # NULL THEN m
    ELSE LET prefix == extractBinPrefix(filePath)
         IN  IF prefix = NULL THEN m
             ELSE [m EXCEPT
                     !.tm = IF m.bt # NoTimer THEN clearTimeout(m.tm, m.bt) ELSE m.tm,
                     !.bt = NoTimer,
                     !.cb = [m.cb EXCEPT !.binPrefix = prefix,
                                         !.binFile = filePath,
                                         !.txtFiles = <<>>],
                     !.pf = m.pf \cup {filePath},
                     !.sa = -1,
                     !.rb = 0]

handleBinFile(m, filePath) ==
    IF filePath \in m.pf THEN m
    ELSE IF m.cb.isProcessing THEN m
    ELSE LET prefix == extractBinPrefix(filePath)
         IN  IF prefix = NULL THEN m
             ELSE [m EXCEPT
                     !.tm = IF m.bt # NoTimer THEN clearTimeout(m.tm, m.bt) ELSE m.tm,
                     !.bt = NoTimer,
                     !.cb = [m.cb EXCEPT !.binPrefix = prefix,
                                         !.binFile = filePath,
                                         !.txtFiles = <<>>],
                     !.pf = m.pf \cup {filePath},
                     !.sa = -1,
                     !.rb = 0]

\* variant: the processedFiles.has(filePath) check is missing
handleTxtFile_NoDedup(m, filePath) ==
    IF m.cb.binPrefix = NULL THEN m
    ELSE IF ~shouldIncludeInBatch(m.cb.binPrefix, filePath) THEN m
    ELSE [m EXCEPT !.cb = [m.cb EXCEPT !.txtFiles = Append(m.cb.txtFiles, filePath)],
                   !.pf = m.pf \cup {filePath},
                   !.sa = 0]

handleTxtFile(m, filePath) ==
    IF m.cb.binPrefix = NULL THEN m
    ELSE IF ~shouldIncludeInBatch(m.cb.binPrefix, filePath) THEN m
    ELSE IF filePath \in m.pf THEN m
    ELSE [m EXCEPT !.cb = [m.cb EXCEPT !.txtFiles = Append(m.cb.txtFiles, filePath)],
                   !.pf = m.pf \cup {filePath},
                   !.sa = 0]

handleFile(m, filePath) ==
    IF EndsWith(filePath, DotBin) THEN handleBinFile(m, filePath)
    ELSE IF EndsWith(filePath, DotTxt) THEN handleTxtFile(m, filePath)
    ELSE m

\* variant: the timer is armed after every arrival, whatever the batch holds
armBatchTimeout_Always(m) ==
    LET cleared == IF m.bt # NoTimer THEN clearTimeout(m.tm, m.bt) ELSE m.tm
        h == FreshId(cleared)
    IN  [m EXCEPT !.tm = cleared \cup {[id |-> h, left |-> TimeoutTicks]},
                  !.bt = h]

\* the "complete batch" check that follows handleFile in both the 'add'
\* handler and the poll loop: (re)arm the completion timer
armBatchTimeout(m) ==
    IF m.cb.binPrefix # NULL /\ m.cb.binFile # NULL /\ Len(m.cb.txtFiles) > 0
    THEN LET cleared == IF m.bt # NoTimer THEN clearTimeout(m.tm, m.bt) ELSE m.tm
             h == FreshId(cleared)
         IN  [m EXCEPT !.tm = cleared \cup {[id |-> h, left |-> TimeoutTicks]},
                       !.bt = h]
    ELSE m

\* body of watcher.on('add', ...)
onAdd(m, filePath) == armBatchTimeout(handleFile(m, filePath))

\* the for-loop of the poll callback over newFiles
RECURSIVE pollLoop(_, _)
pollLoop(m, newFiles) ==
    IF newFiles = <<>> THEN m
    ELSE pollLoop(armBatchTimeout(handleFile(m, Head(newFiles))), Tail(newFiles))

\* the two loops of processExistingFiles: .bin files first, then .txt files
RECURSIVE scanBins(_, _)
scanBins(m, binFiles) ==
    IF binFiles = <<>> THEN m
    ELSE scanBins(handleBinFile(m, Head(binFiles)), Tail(binFiles))

RECURSIVE scanTxts(_, _)
scanTxts(m, txtFiles) ==
    IF txtFiles = <<>> THEN m
    ELSE scanTxts(handleTxtFile(m, Head(txtFiles)), Tail(txtFiles))

\* files.filter(pred) on a listing
RECURSIVE FilterSeq(_, _)
FilterSeq(s, keep) ==
    IF s = <<>> THEN <<>>
    ELSE IF Head(s) \in keep THEN <<Head(s)>> \o FilterSeq(Tail(s), keep)
    ELSE FilterSeq(Tail(s), keep)


(***************************************************************************)
(* processCurrentBatch and the steps of a finalize run.                    *)
(***************************************************************************)
\* variant: the anchor path is cleared once the anchor has been relocated
EnterMerge_ForgetAnchor(cb, r) ==
    IF Len(cb.txtFiles) = 0
    THEN [cb |-> [cb EXCEPT !.binFile = NULL], run |-> [r EXCEPT !.pc = "readdir"]]
    ELSE [cb |-> [cb EXCEPT !.binFile = NULL, !.txtFiles = SortFiles(cb.txtFiles)],
          run |-> [r EXCEPT !.pc = "read", !.idx = 1, !.merged = <<>>]]

\* mergeTxtFiles up to its first await: the empty check, the sort, and the
\* first fs.readFile issued
EnterMerge(cb, r) ==
    IF Len(cb.txtFiles) = 0
    THEN [cb |-> cb, run |-> [r EXCEPT !.pc = "readdir"]]
    ELSE [cb |-> [cb EXCEPT !.txtFiles = SortFiles(cb.txtFiles)],
          run |-> [r EXCEPT !.pc = "read", !.idx = 1, !.merged = <<>>]]

\* processCurrentBatch up to its first await; started is FALSE when the
\* isProcessing guard returns at once
processCurrentBatch(cb, by) ==
    IF cb.isProcessing
    THEN [cb |-> cb, run |-> run, started |-> FALSE]
    ELSE LET cb1 == [cb EXCEPT !.isProcessing = TRUE]
             r1 == [IdleRun EXCEPT !.by = by]
         IN  IF cb1.binFile # NULL
             THEN [cb |-> cb1, run |-> [r1 EXCEPT !.pc = "move"], started |-> TRUE]
             ELSE [cb |-> EnterMerge(cb1, r1).cb, run |-> EnterMerge(cb1, r1).run,
                   started |-> TRUE]

\* variant: the reset clears the members and the flag but keeps the key
ResetBatch_KeepKey(cb) == [cb EXCEPT !.txtFiles = <<>>, !.isProcessing = FALSE]

\* the finally block of processCurrentBatch
ResetBatch(cb) == EmptyBatch

\* variant: the finally block resets the batch but leaves the dedup set
FinishRun_KeepDedup ==
    /\ currentBatch' = ResetBatch(currentBatch)
    /\ processedFiles' = processedFiles
    /\ batchTimeout' = IF run.by = "timer" THEN NoTimer ELSE batchTimeout
    /\ phase' = "watching"
    /\ run' = IdleRun
    /\ active' = active - 1
    /\ sinceAccept' = -1
    /\ runsOfBatch' = IF ResetBatch(currentBatch).binPrefix = NULL THEN 0
                      ELSE runsOfBatch

\* the finally block, then the caller's continuation: the timer callback
\* sets batchTimeout = null, main goes on to install the watcher
FinishRun ==
    /\ currentBatch' = ResetBatch(currentBatch)
    /\ processedFiles' = {}
    /\ batchTimeout' = IF run.by = "timer" THEN NoTimer ELSE batchTimeout
    /\ phase' = "watching"
    /\ run' = IdleRun
    /\ active' = active - 1
    /\ sinceAccept' = -1
    /\ runsOfBatch' = IF ResetBatch(currentBatch).binPrefix = NULL THEN 0
                      ELSE runsOfBatch

Init ==
    /\ currentBatch = EmptyBatch
    /\ processedFiles = {}
    /\ batchTimeout = NoTimer
    /\ timers = {}
    /\ inputDir \in {S \in SUBSET Files : Cardinality(S) <= MaxEnvEvents}
    /\ binDir = {}
    /\ results = <<>>
    /\ tracking = <<>>
    /\ phase = "boot"
    /\ run = IdleRun
    /\ pollList = NoPoll
    /\ sinceAccept = -1
    /\ runsOfBatch = 0
    /\ active = 0
    /\ envEvents = Cardinality(inputDir)
    /\ clock = 0
    /\ interrupted = EmptyBatch

\* a file appears in the intake directory
Drop(f) ==
    /\ envEvents < MaxEnvEvents
    /\ f \notin inputDir
    /\ inputDir' = inputDir \cup {f}
    /\ envEvents' = envEvents + 1
    /\ UNCHANGED <<clock, interrupted, currentBatch, processedFiles, batchTimeout, timers, binDir,
                   results, tracking, phase, run, pollList, sinceAccept, runsOfBatch,
                   active>>

\* processExistingFiles, from the completion of fs.readdir
StartupScan ==
    /\ phase = "boot"
    /\ \E files \in Perms(inputDir) :
         LET m == scanTxts(scanBins(Mem, FilterSeq(files, BinFiles)),
                           FilterSeq(files, TxtFiles))
             p == processCurrentBatch(m.cb, "startup")
         IN  /\ processedFiles' = m.pf
             /\ batchTimeout' = m.bt
             /\ timers' = m.tm
             /\ sinceAccept' = m.sa
             /\ IF m.cb.binPrefix # NULL /\ p.started
                THEN /\ currentBatch' = p.cb
                     /\ run' = p.run
                     /\ phase' = "startup"
                     /\ runsOfBatch' = m.rb + 1
                     /\ active' = active + 1
                ELSE /\ currentBatch' = m.cb
                     /\ phase' = "watching"
                     /\ runsOfBatch' = m.rb
                     /\ UNCHANGED <<run, active>>
    /\ UNCHANGED <<clock, interrupted, inputDir, binDir, results, tracking, pollList, envEvents>>

\* chokidar delivers 'add' for a file of the intake directory
WatchAdd(f) ==
    /\ phase = "watching"
    /\ f \in inputDir
    /\ LET m == onAdd(Mem, f)
       IN  /\ currentBatch' = m.cb
           /\ processedFiles' = m.pf
           /\ batchTimeout' = m.bt
           /\ timers' = m.tm
           /\ sinceAccept' = m.sa
           /\ runsOfBatch' = m.rb
    /\ UNCHANGED <<clock, interrupted, inputDir, binDir, results, tracking, phase, run, pollList, active,
                   envEvents>>

\* the poll callback issues fs.readdir
PollRead ==
    /\ phase = "watching"
    /\ ~pollList.pending
    /\ pollList' = [pending |-> TRUE, files |-> inputDir]
    /\ UNCHANGED <<clock, interrupted, currentBatch, processedFiles, batchTimeout, timers, inputDir,
                   binDir, results, tracking, phase, run, sinceAccept, runsOfBatch,
                   active, envEvents>>

\* the poll callback from the completion of fs.readdir to its end
PollHandle ==
    /\ pollList.pending
    /\ \E newFiles \in Perms(pollList.files \cap ((BinFiles \cup TxtFiles) \ processedFiles)) :
         LET m == pollLoop(Mem, newFiles)
         IN  /\ currentBatch' = m.cb
             /\ processedFiles' = m.pf
             /\ batchTimeout' = m.bt
             /\ timers' = m.tm
             /\ sinceAccept' = m.sa
             /\ runsOfBatch' = m.rb
    /\ pollList' = NoPoll
    /\ UNCHANGED <<clock, interrupted, inputDir, binDir, results, tracking, phase, run, active, envEvents>>

\* one tick of time passes; a due timer fires before time goes on, and the
\* fs.readdir of a poll completes within the tick that issued it
Tick ==
    /\ phase = "watching"
    /\ ~pollList.pending
    /\ \A t \in timers : t.left > 0
    /\ \/ timers # {}
       \/ sinceAccept >= 0 /\ sinceAccept < TimeoutTicks
    /\ timers' = {[t EXCEPT !.left = t.left - 1] : t \in timers}
    /\ sinceAccept' = IF sinceAccept >= 0 /\ sinceAccept < TimeoutTicks
                      THEN sinceAccept + 1 ELSE sinceAccept
    /\ UNCHANGED <<clock, interrupted, currentBatch, processedFiles, batchTimeout, inputDir, binDir,
                   results, tracking, phase, run, pollList, runsOfBatch, active, envEvents>>

\* the completion-timer callback, up to the first await of processCurrentBatch
TimerFire ==
    /\ \E t \in timers :
         /\ t.left = 0
         /\ timers' = timers \ {t}
    /\ IF currentBatch.binPrefix # NULL /\ ~currentBatch.isProcessing
       THEN LET p == processCurrentBatch(currentBatch, "timer")
            IN  /\ currentBatch' = p.cb
                /\ run' = p.run
                /\ runsOfBatch' = runsOfBatch + 1
                /\ active' = active + 1
                /\ UNCHANGED batchTimeout
       ELSE /\ batchTimeout' = NoTimer
            /\ UNCHANGED <<currentBatch, run, runsOfBatch, active>>
    /\ UNCHANGED <<clock, interrupted, processedFiles, inputDir, binDir, results, tracking, phase, pollList,
                   sinceAccept, envEvents>>


\* an I/O call on file f succeeds only if f exists; it fails if f is gone,
\* and may fail by a fault of the file system although f exists
IoOutcome(f, ok) ==
    IF ok THEN f \in inputDir /\ envEvents' = envEvents
    ELSE \/ f \notin inputDir /\ envEvents' = envEvents
         \/ f \in inputDir /\ envEvents < MaxEnvEvents /\ envEvents' = envEvents + 1

\* step 1, moveBinFile: fs.rename completes; mergeTxtFiles begins
FinMove ==
    /\ run.pc = "move"
    /\ \E ok \in BOOLEAN :
         /\ IoOutcome(currentBatch.binFile, ok)
         /\ IF ok
            THEN /\ inputDir' = inputDir \ {currentBatch.binFile}
                 /\ binDir' = binDir \cup {currentBatch.binFile}
            ELSE UNCHANGED <<inputDir, binDir>>
    /\ currentBatch' = EnterMerge(currentBatch, run).cb
    /\ run' = EnterMerge(currentBatch, run).run
    /\ UNCHANGED <<clock, interrupted, processedFiles, batchTimeout, timers, results, tracking, phase, pollList,
                   sinceAccept, runsOfBatch, active>>

\* variant: a failed fs.readFile is not caught inside the loop and ends
\* mergeTxtFiles through its outer catch
FinRead_AbortOnError ==
    /\ run.pc = "read"
    /\ LET f == currentBatch.txtFiles[run.idx]
       IN  \E ok \in BOOLEAN :
             /\ IoOutcome(f, ok)
             /\ run' = IF ~ok
                        THEN [run EXCEPT !.pc = "readdir", !.unread = run.unread \cup {f}]
                        ELSE IF run.idx < Len(currentBatch.txtFiles)
                        THEN [run EXCEPT !.idx = run.idx + 1,
                                         !.merged = run.merged \o NonBlank(Content(f))]
                        ELSE [run EXCEPT !.pc = "write",
                                         !.merged = run.merged \o NonBlank(Content(f))]
    /\ UNCHANGED <<clock, interrupted, currentBatch, processedFiles, batchTimeout,
                   timers, inputDir, binDir, results, tracking, phase, pollList,
                   sinceAccept, runsOfBatch, active>>

\* step 2, one iteration of the for-of loop of mergeTxtFiles: fs.readFile
\* of txtFiles[idx] completes; the loop goes on while the array, as it is
\* now, has a next element
FinRead ==
    /\ run.pc = "read"
    /\ LET f == currentBatch.txtFiles[run.idx]
       IN  \E ok \in BOOLEAN :
             /\ IoOutcome(f, ok)
             /\ LET merged == IF ok THEN run.merged \o NonBlank(Content(f))
                              ELSE run.merged
                    unread == IF ok THEN run.unread ELSE run.unread \cup {f}
                IN  run' = IF run.idx < Len(currentBatch.txtFiles)
                           THEN [run EXCEPT !.idx = run.idx + 1, !.merged = merged,
                                            !.unread = unread]
                           ELSE [run EXCEPT !.pc = "write", !.merged = merged,
                                            !.unread = unread]
    /\ UNCHANGED <<clock, interrupted, currentBatch, processedFiles, batchTimeout, timers, inputDir,
                   binDir, results, tracking, phase, pollList, sinceAccept, runsOfBatch,
                   active>>

\* fs.writeFile of <binPrefix>_result.txt completes; on success the tally
\* decides whether updateSFTracking runs, on failure the catch block ends
\* mergeTxtFiles
FinWrite ==
    /\ run.pc = "write"
    /\ \/ /\ results' = [k \in DOMAIN results \cup {currentBatch.binPrefix} |->
                           IF k = currentBatch.binPrefix THEN run.merged
                           ELSE results[k]]
          /\ run' = [run EXCEPT !.pc = IF HasSFValues(run.merged) THEN "load"
                                       ELSE "readdir"]
          /\ UNCHANGED envEvents
       \/ /\ envEvents < MaxEnvEvents
          /\ envEvents' = envEvents + 1
          /\ run' = [run EXCEPT !.pc = "readdir"]
          /\ UNCHANGED results
    /\ UNCHANGED <<clock, interrupted, currentBatch, processedFiles, batchTimeout, timers, inputDir,
                   binDir, tracking, phase, pollList, sinceAccept, runsOfBatch,
                   active>>

\* the category map of watcher.js (SF code -> category name); its name
\* there begins with "SF_", which TLA+ reads as the fairness operator
CATEGORIES ==
    [c \in 0..7 |-> <<"other", "Road Surface", "cubs", "vehicles", "guard rails",
                      "protective barrier", "streetlight",
                      "sign and overhead">>[c + 1]]

\* SF_CATEGORIES[parseInt(sfValue)] || 'unknown'
categoryOf(c) == IF c \in DOMAIN CATEGORIES THEN CATEGORIES[c] ELSE "unknown"

\* the loop that fills fileEntry.sfCategories: each code assigns its count
\* to its category, so a category keeps the count of the code visited last.
\* Object.entries visits the codes from 0 up in ascending order (the texts
\* of the model give no negative code)
sfCategories(sfCounts) ==
    [cat \in {categoryOf(c) : c \in DOMAIN sfCounts} |->
        LET codes == {c \in DOMAIN sfCounts : categoryOf(c) = cat}
        IN  sfCounts[CHOOSE c \in codes : \A d \in codes : d <= c]]

\* the entry updateSFTracking builds for the merged text
fileEntry(lines, currentTime) ==
    [timestamp |-> currentTime,
     totalPoints |-> totalPoints(countSFValues(lines)),
     sfCounts |-> countSFValues(lines),
     sfCategories |-> sfCategories(countSFValues(lines))]

\* trackingData[filename] = fileEntry
SetEntry(trackingData, filename, entry) ==
    [k \in DOMAIN trackingData \cup {filename} |->
        IF k = filename THEN entry ELSE trackingData[k]]

\* the timestamp a store holds under a filename, 0 if it holds none
TimestampOf(store, filename) ==
    IF filename \in DOMAIN store THEN store[filename].timestamp ELSE 0

\* updateSFTracking from the return of loadTrackingData to the call of
\* saveTrackingData: the clock is read, the entry is built and assigned
\* into the loaded object
BuildEntry(r, store) ==
    [r EXCEPT !.pc = "save",
              !.priorTime = TimestampOf(store, currentBatch.binPrefix),
              !.currentTime = clock + 1,
              !.loaded = SetEntry(store, currentBatch.binPrefix,
                                  fileEntry(r.merged, clock + 1))]

\* updateSFTracking, loadTrackingData: fs.readFile of sf_tracking.json
\* completes; a file that is missing or unreadable gives the empty object
FinLoad ==
    /\ run.pc = "load"
    /\ \/ /\ run' = BuildEntry(run, tracking)
          /\ UNCHANGED envEvents
       \/ /\ tracking # <<>>
          /\ envEvents < MaxEnvEvents
          /\ envEvents' = envEvents + 1
          /\ run' = BuildEntry(run, <<>>)
    /\ clock' = clock + 1
    /\ UNCHANGED <<interrupted, currentBatch, processedFiles, batchTimeout, timers, inputDir,
                   binDir, results, tracking, phase, pollList, sinceAccept,
                   runsOfBatch, active>>

\* saveTrackingData: fs.writeFile of sf_tracking.json completes; its failure
\* is caught inside saveTrackingData; generateAIComment is called next
FinSave ==
    /\ run.pc = "save"
    /\ \/ /\ tracking' = run.loaded
          /\ UNCHANGED envEvents
       \/ /\ envEvents < MaxEnvEvents
          /\ envEvents' = envEvents + 1
          /\ UNCHANGED tracking
    /\ run' = [run EXCEPT !.pc = "summarize"]
    /\ UNCHANGED <<clock, interrupted, currentBatch, processedFiles, batchTimeout, timers, inputDir,
                   binDir, results, phase, pollList, sinceAccept, runsOfBatch,
                   active>>

\* variant: a throw of generateAIComment ends updateSFTracking before the
\* call of syncAnnotation
summarized_DropOnThrow(r, threw, configured) ==
    LET r1 == [r EXCEPT !.threw = threw, !.configured = configured,
                        !.aiComment = IF threw THEN DefaultComment
                                      ELSE GeneratedComment]
    IN  IF configured /\ ~threw
        THEN [r1 EXCEPT !.pc = "report",
                        !.prevTime = IF TimestampOf(r.loaded, currentBatch.binPrefix) # 0
                                     THEN TimestampOf(r.loaded, currentBatch.binPrefix)
                                     ELSE r.currentTime]
        ELSE [r1 EXCEPT !.pc = "readdir"]

\* updateSFTracking from the completion of generateAIComment to the call
\* of syncAnnotation: a throw keeps the initial comment; with the sheet
\* configured prevTime is looked up in trackingData, else nothing is sent
summarized(r, threw, configured) ==
    LET r1 == [r EXCEPT !.threw = threw, !.configured = configured,
                        !.aiComment = IF threw THEN DefaultComment
                                      ELSE GeneratedComment]
    IN  IF configured
        THEN [r1 EXCEPT !.pc = "report",
                        !.prevTime = IF TimestampOf(r.loaded, currentBatch.binPrefix) # 0
                                     THEN TimestampOf(r.loaded, currentBatch.binPrefix)
                                     ELSE r.currentTime]
        ELSE [r1 EXCEPT !.pc = "readdir"]

\* generateAIComment returns a comment or throws (the throw is caught and
\* the default comment kept); syncAnnotation is called if SHEET_ID and
\* SHEET_NAME are set in the environment, which is read at each run
FinSummarize ==
    /\ run.pc = "summarize"
    /\ \E threw \in BOOLEAN, configured \in BOOLEAN :
         run' = summarized(run, threw, configured)
    /\ UNCHANGED <<clock, interrupted, currentBatch, processedFiles, batchTimeout, timers, inputDir,
                   binDir, results, tracking, phase, pollList, sinceAccept,
                   runsOfBatch, active, envEvents>>

\* variant: an exception of syncAnnotation is not caught in updateSFTracking
\* and ends the run through the catch and finally of processCurrentBatch
FinReport_Propagate ==
    /\ run.pc = "report"
    /\ \E outcome \in {"ok", "failed", "threw"} :
         IF outcome = "threw"
         THEN FinishRun
         ELSE /\ run' = [run EXCEPT !.pc = "readdir", !.report = outcome]
              /\ UNCHANGED <<currentBatch, processedFiles, batchTimeout, phase,
                             sinceAccept, runsOfBatch, active>>
    /\ UNCHANGED <<clock, interrupted, timers, inputDir, binDir, results, tracking, pollList,
                   envEvents>>

\* variant: after a sync that did not succeed the comment is generated again
FinReport_Retry ==
    /\ run.pc = "report"
    /\ \E outcome \in {"ok", "failed", "threw"} :
         run' = [run EXCEPT !.pc = IF outcome = "ok" THEN "readdir" ELSE "summarize",
                            !.report = outcome]
    /\ UNCHANGED <<clock, interrupted, currentBatch, processedFiles, batchTimeout, timers, inputDir,
                   binDir, results, tracking, phase, pollList, sinceAccept,
                   runsOfBatch, active, envEvents>>

(***************************************************************************)
(* cleanAIResponse of ai-comment-generator.js.  A text is the sequence of  *)
(* its words (the maximal runs of non-blank characters), a word a sequence *)
(* of characters.                                                          *)
(***************************************************************************)
\* \w of the characters that the words of the model are made of
WordChars ==
    {"a", "b", "c", "d", "e", "f", "g", "h", "i", "k", "l", "m", "n", "o",
     "p", "r", "s", "t", "u", "v", "w", "C", "D", "T"}

\* the characters that /[^\w\s.,!?-]/g leaves in place
KeptChars == WordChars \cup {".", ",", "!", "?", "-"}

\* the i flag of the two prefix patterns, on the capitals of the model
toLowerCase(w) ==
    [i \in 1..Len(w) |->
        IF w[i] = "C" THEN "c" ELSE IF w[i] = "D" THEN "d"
        ELSE IF w[i] = "T" THEN "t" ELSE w[i]]

\* .replace(/[^\w\s.,!?-]/g, '').replace(/\s+/g, ' ').trim(): the words
\* without their special characters; a word of which nothing stays is gone
RECURSIVE stripSpecial(_)
stripSpecial(text) ==
    IF text = <<>> THEN <<>>
    ELSE LET w == SelectSeq(Head(text), LAMBDA ch : ch \in KeptChars)
         IN  IF w = <<>> THEN stripSpecial(Tail(text))
             ELSE <<w>> \o stripSpecial(Tail(text))

LabelWords ==
    {<<"c", "o", "m", "m", "e", "n", "t">>,
     <<"r", "e", "s", "u", "l", "t">>,
     <<"a", "n", "s", "w", "e", "r">>,
     <<"r", "e", "s", "p", "o", "n", "s", "e">>}

\* does word w begin with p, letter case ignored
BeginsWith(w, p) ==
    Len(w) >= Len(p) /\ toLowerCase(SubSeq(w, 1, Len(p))) = p

\* .replace(/^(comment|result|answer|response)[:\s]*/i, ''): the label is
\* cut from the first word, and the blank after it when nothing stays
stripLabel(text) ==
    IF text # <<>> /\ \E p \in LabelWords : BeginsWith(text[1], p)
    THEN LET p == CHOOSE q \in LabelWords : BeginsWith(text[1], q)
             rest == SubSeq(text[1], Len(p) + 1, Len(text[1]))
         IN  IF rest = <<>> THEN Tail(text) ELSE <<rest>> \o Tail(text)
    ELSE text

Articles == {<<"t", "h", "e">>, <<"a">>, <<"a", "n">>}

\* .replace(/^(the|a|an)\s+/i, ''): a leading article that a blank follows
stripArticle(text) ==
    IF Len(text) >= 2 /\ toLowerCase(text[1]) \in Articles
    THEN Tail(text) ELSE text

dataWords ==
    <<<<"d", "a", "t", "a">>,
      <<"s", "h", "o", "w", "s">>,
      <<"s", "u", "r", "f", "a", "c", "e">>,
      <<"f", "e", "a", "t", "u", "r", "e", "s">>,
      <<"w", "i", "t", "h">>,
      <<"p", "o", "i", "n", "t">>,
      <<"d", "i", "s", "t", "r", "i", "b", "u", "t", "i", "o", "n">>,
      <<"p", "a", "t", "t", "e", "r", "n", "s">>>>

\* the sentence returned for a comment that is empty or under 10 characters
DefaultSentence ==
    <<<<"D", "a", "t", "a">>,
      <<"s", "h", "o", "w", "s">>,
      <<"s", "u", "r", "f", "a", "c", "e">>,
      <<"f", "e", "a", "t", "u", "r", "e", "s">>,
      <<"w", "i", "t", "h">>,
      <<"p", "o", "i", "n", "t">>,
      <<"d", "i", "s", "t", "r", "i", "b", "u", "t", "i", "o", "n">>,
      <<"p", "a", "t", "t", "e", "r", "n", "s">>,
      <<"a", "c", "r", "o", "s", "s">>,
      <<"m", "u", "l", "t", "i", "p", "l", "e">>,
      <<"c", "a", "t", "e", "g", "o", "r", "i", "e", "s">>>>

\* cleaned.length: the characters of the words and the blanks between them
RECURSIVE CharLength(_)
CharLength(text) ==
    IF text = <<>> THEN 0
    ELSE IF Len(text) = 1 THEN Len(text[1])
    ELSE Len(text[1]) + 1 + CharLength(Tail(text))

\* Array.prototype.slice(0, end) for end >= 0
slice(arr, end) == SubSeq(arr, 1, IF end < Len(arr) THEN end ELSE Len(arr))

cleanAIResponse(response) ==
    LET words == stripArticle(stripLabel(stripSpecial(response)))
        cleaned == IF Len(words) < 10
                   THEN words \o slice(dataWords, 10 - Len(words))
                   ELSE words
    IN  IF cleaned = <<>> \/ CharLength(cleaned) < 10
        THEN DefaultSentence
        ELSE cleaned

\* generateAIComment from the completion of the model request: the raw text
\* is cleaned and returned, and updateSFTracking goes on to syncAnnotation
FinGenerate ==
    /\ run.pc = "summarize"
    /\ run' = [summarized(run, FALSE, TRUE) EXCEPT
                 !.cleaned = cleanAIResponse(run.response)]
    /\ UNCHANGED <<clock, interrupted, currentBatch, processedFiles, batchTimeout, timers, inputDir,
                   binDir, results, tracking, phase, pollList, sinceAccept,
                   runsOfBatch, active, envEvents>>

\* the column map of sheets-sync.js (SF code -> column letter); its name
\* there begins with "SF_", which TLA+ reads as the fairness operator
CATEGORY_COLUMNS ==
    [c \in 1..7 |-> <<"O", "P", "Q", "R", "S", "T", "U">>[c]]

\* TLC's integers end below 2^31: Sextillion stands for the Number 10^21,
\* the least integer that Number.prototype.toString prints in exponent
\* notation.  No arithmetic is done on it.
Sextillion == 2147483647

\* the decimal digits of a natural number
RECURSIVE Decimal(_)
Decimal(n) ==
    LET d == <<"0", "1", "2", "3", "4", "5", "6", "7", "8", "9">>[(n % 10) + 1]
    IN  IF n < 10 THEN <<d>> ELSE Append(Decimal(n \div 10), d)

\* the property name under which an object holds the integer code c
\* (Number.prototype.toString): plain decimal below 10^21, "1e+21" for 10^21
NumberToString(c) ==
    IF c = Sextillion THEN <<"1", "e", "+", "2", "1">>
    ELSE IF c < 0 THEN <<"-">> \o Decimal(-c)
    ELSE Decimal(c)

\* the value of the digits s[i..j]
RECURSIVE DigitsValue(_, _, _)
DigitsValue(s, i, j) ==
    IF j < i THEN 0
    ELSE 10 * DigitsValue(s, i, j - 1)
         + (CHOOSE d \in 0..9 : Decimal(d) = <<s[j]>>)

\* parseInt(s) is NaN when no digit follows the optional sign
IsNaN(s) ==
    LET from == IF Len(s) > 0 /\ s[1] \in {"-", "+"} THEN 2 ELSE 1
    IN  DigitRun(s, from) = 0

\* parseInt(s): the optional sign and the leading run of digits; whatever
\* follows the run is ignored
parseInt(s) ==
    LET neg == Len(s) > 0 /\ s[1] = "-"
        from == IF Len(s) > 0 /\ s[1] \in {"-", "+"} THEN 2 ELSE 1
        value == DigitsValue(s, from, from + DigitRun(s, from) - 1)
    IN  IF neg THEN -value ELSE value

\* sfCountsToMarks: every column "X", then "O" for each entry of the tally
\* whose key parses to a code that has a column and whose count is above 0
sfCountsToMarks(sfCounts) ==
    [col \in Range(CATEGORY_COLUMNS) |->
        IF \E c \in DOMAIN sfCounts :
              LET sfValue == NumberToString(c)
              IN  /\ ~IsNaN(sfValue)
                  /\ parseInt(sfValue) \in DOMAIN CATEGORY_COLUMNS
                  /\ CATEGORY_COLUMNS[parseInt(sfValue)] = col
                  /\ sfCounts[c] > 0
        THEN "O" ELSE "X"]

\* (Math.random() - 0.5) * 4, in tenths of a minute: from -2.0 to under 2.0
RandomVariations == {-20, 0, 19}

\* calculateTimeTaken, in tenths of a minute as toFixed(1) prints it: a
\* time chosen by the number of points, moved by the random variation and
\* kept between minTime and maxTime
calculateTimeTaken(prevTime, currentTime, points, randomVariation) ==
    LET minTime == 150
        maxTime == 300
        calculatedTime ==
            IF points <= 10000 THEN minTime
            ELSE IF points <= 25000 THEN minTime + 30
            ELSE IF points <= 50000 THEN minTime + 60
            ELSE IF points <= 70000 THEN minTime + 90
            ELSE IF points <= 100000 THEN minTime + 120
            ELSE maxTime
        moved == calculatedTime + randomVariation
        capped == IF moved < maxTime THEN moved ELSE maxTime
    IN  IF capped > minTime THEN capped ELSE minTime

\* the values updateRow sends for columns O to W
rowValues(entry, prevTime, currentTime, comment, randomVariation) ==
    [marks |-> sfCountsToMarks(entry.sfCounts),
     timeTaken |-> calculateTimeTaken(prevTime, currentTime, entry.totalPoints,
                                      randomVariation),
     comment |-> comment]

\* syncAnnotation returns true (the row was found and updated), returns
\* false or throws; updateSFTracking returns and clearInputDirectory issues
\* fs.readdir
FinReport ==
    /\ run.pc = "report"
    /\ \E outcome \in {"ok", "failed", "threw"}, randomVariation \in RandomVariations :
         run' = [run EXCEPT
                   !.pc = "readdir", !.report = outcome,
                   !.values = IF outcome = "ok"
                              THEN rowValues(run.loaded[currentBatch.binPrefix],
                                             run.prevTime, run.currentTime,
                                             run.aiComment, randomVariation)
                              ELSE NoValues]
    /\ UNCHANGED <<clock, interrupted, currentBatch, processedFiles, batchTimeout, timers, inputDir,
                   binDir, results, tracking, phase, pollList, sinceAccept,
                   runsOfBatch, active, envEvents>>

\* step 3, clearInputDirectory: fs.readdir completes with the names present
FinReaddir ==
    /\ run.pc = "readdir"
    /\ IF inputDir = {}
       THEN FinishRun
       ELSE /\ run' = [run EXCEPT !.pc = "unlink", !.sweep = inputDir]
            /\ UNCHANGED <<currentBatch, processedFiles, batchTimeout, phase,
                           active, sinceAccept, runsOfBatch>>
    /\ UNCHANGED <<clock, interrupted, timers, inputDir, binDir, results, tracking, pollList, envEvents>>

\* one iteration of the unlink loop, which visits the listing in whatever
\* order fs.readdir gave; after the last name the run ends
FinUnlink ==
    /\ run.pc = "unlink"
    /\ \E f \in run.sweep :
         /\ \E ok \in BOOLEAN :
              /\ IoOutcome(f, ok)
              /\ inputDir' = IF ok THEN inputDir \ {f} ELSE inputDir
         /\ IF run.sweep = {f}
            THEN FinishRun
            ELSE /\ run' = [run EXCEPT !.sweep = run.sweep \ {f}]
                 /\ UNCHANGED <<currentBatch, processedFiles, batchTimeout, phase,
                                active, sinceAccept, runsOfBatch>>
    /\ UNCHANGED <<clock, interrupted, timers, binDir, results, tracking, pollList>>

Next ==
    \/ \E f \in Files : Drop(f)
    \/ StartupScan
    \/ \E f \in Files : WatchAdd(f)
    \/ PollRead
    \/ PollHandle
    \/ Tick
    \/ TimerFire
    \/ FinMove
    \/ FinRead
    \/ FinWrite
    \/ FinLoad
    \/ FinSave
    \/ FinSummarize
    \/ FinReport
    \/ FinReaddir
    \/ FinUnlink

Spec == Init /\ [][Next]_vars

(***************************************************************************)
(* The watcher started over the sf_tracking.json an earlier process left:  *)
(* one record for each of the two keys, written at the first reading of    *)
(* the clock.                                                              *)
(***************************************************************************)
PriorTime == 1

PriorStore ==
    [k \in {extractBinPrefix(Anchor18), extractBinPrefix(Anchor19)} |->
        fileEntry(<<PointLine("3.000000")>>, PriorTime)]

PriorInit ==
    /\ currentBatch = EmptyBatch
    /\ processedFiles = {}
    /\ batchTimeout = NoTimer
    /\ timers = {}
    /\ inputDir \in {S \in SUBSET Files : Cardinality(S) <= MaxEnvEvents}
    /\ binDir = {}
    /\ results = <<>>
    /\ tracking = PriorStore
    /\ phase = "boot"
    /\ run = IdleRun
    /\ pollList = NoPoll
    /\ sinceAccept = -1
    /\ runsOfBatch = 0
    /\ active = 0
    /\ envEvents = Cardinality(inputDir)
    /\ clock = PriorTime
    /\ interrupted = EmptyBatch

PriorSpec == PriorInit /\ [][Next]_vars

(***************************************************************************)
(* The process is stopped and started again: the state of the module is    *)
(* lost with its timers and pending callbacks, the directories and         *)
(* sf_tracking.json stay, and main runs from its beginning.                *)
(***************************************************************************)
Restart ==
    /\ phase # "boot"
    /\ envEvents < MaxEnvEvents
    /\ envEvents' = envEvents + 1
    /\ interrupted' = currentBatch
    /\ currentBatch' = EmptyBatch
    /\ processedFiles' = {}
    /\ batchTimeout' = NoTimer
    /\ timers' = {}
    /\ phase' = "boot"
    /\ run' = IdleRun
    /\ pollList' = NoPoll
    /\ sinceAccept' = -1
    /\ runsOfBatch' = 0
    /\ active' = 0
    /\ UNCHANGED <<inputDir, binDir, results, tracking, clock>>

RestartNext ==
    \/ Next
    \/ Restart

RestartSpec == Init /\ [][RestartNext]_vars

(***************************************************************************)
(* A finalize run over members of which any may be gone from the intake    *)
(* directory: the timer of batch 1_8 has fired, the batch holds one or two *)
(* members in the order of their arrival, and each file is present or has  *)
(* been removed since it was reported.                                     *)
(***************************************************************************)
MemberOrders == UNION {Perms(S) : S \in (SUBSET {Member18, Member19}) \ {{}}}

MergeInit ==
    /\ \E order \in MemberOrders :
         /\ currentBatch = [binPrefix |-> extractBinPrefix(Anchor18),
                            binFile |-> Anchor18, txtFiles |-> order,
                            isProcessing |-> TRUE]
         /\ processedFiles = {Anchor18} \cup Range(order)
    /\ batchTimeout = 1
    /\ timers = {}
    /\ inputDir \in SUBSET {Anchor18, Member18, Member19}
    /\ binDir = {}
    /\ results = <<>>
    /\ tracking = <<>>
    /\ phase = "watching"
    /\ run = [IdleRun EXCEPT !.pc = "move", !.by = "timer"]
    /\ pollList = NoPoll
    /\ sinceAccept = TimeoutTicks
    /\ runsOfBatch = 1
    /\ active = 1
    /\ envEvents = MaxEnvEvents - 1
    /\ clock = 0
    /\ interrupted = EmptyBatch

\* the watcher is past its startup scan
MergeNext ==
    \/ \E f \in Files : Drop(f)
    \/ \E f \in Files : WatchAdd(f)
    \/ PollRead
    \/ PollHandle
    \/ Tick
    \/ TimerFire
    \/ FinMove
    \/ FinRead
    \/ FinWrite
    \/ FinLoad
    \/ FinSave
    \/ FinSummarize
    \/ FinReport
    \/ FinReaddir
    \/ FinUnlink

MergeSpec == MergeInit /\ [][MergeNext]_vars

(***************************************************************************)
(* The row sent to the sheet for every tally, point total and pair of      *)
(* timestamps of small sets: the run of batch 1_8 is about to call         *)
(* syncAnnotation.  Timestamps are in minutes.                             *)
(***************************************************************************)
SheetTallies ==
    UNION {[S -> {0, 3}] : S \in SUBSET {0, 1, 7, 8, Sextillion}}

SheetPoints == {3, 10000, 10001, 25001, 50001, 70001, 100000, 100001}

SheetTimes == {1, 16, 31}

SheetInit ==
    /\ currentBatch = [binPrefix |-> extractBinPrefix(Anchor18),
                       binFile |-> Anchor18, txtFiles |-> <<Member18>>,
                       isProcessing |-> TRUE]
    /\ processedFiles = {Anchor18, Member18}
    /\ batchTimeout = NoTimer
    /\ timers = {}
    /\ inputDir = {Member18}
    /\ binDir = {Anchor18}
    /\ results = <<>>
    /\ tracking = <<>>
    /\ phase = "watching"
    /\ \E sfCounts \in SheetTallies, points \in SheetPoints,
          prevTime \in SheetTimes, currentTime \in SheetTimes :
         /\ prevTime <= currentTime
         /\ run = [IdleRun EXCEPT
                     !.pc = "report", !.by = "timer", !.idx = 1,
                     !.loaded = SetEntry(<<>>, currentBatch.binPrefix,
                                         [timestamp |-> currentTime,
                                          totalPoints |-> points,
                                          sfCounts |-> sfCounts]),
                     !.currentTime = currentTime, !.prevTime = prevTime,
                     !.configured = TRUE, !.aiComment = GeneratedComment]
    /\ pollList = NoPoll
    /\ sinceAccept = 0
    /\ runsOfBatch = 1
    /\ active = 1
    /\ envEvents = MaxEnvEvents
    /\ clock = 0
    /\ interrupted = EmptyBatch

SheetNext ==
    \/ FinReport
    \/ FinReaddir
    \/ FinUnlink

SheetSpec == SheetInit /\ [][SheetNext]_vars

(***************************************************************************)
(* The tally of every merged text of up to MaxLines lines: the run has     *)
(* read its member and is about to write the merged text.                  *)
(***************************************************************************)
MaxLines == 3

TallyLines ==
    {PointLine("1.000000"), PointLine("2.000000"), PointLine("2.6"),
     PointLine("8.000000"), PointLine("9.000000"),
     PointLine("n/a"), PointLine("2abc"),
     <<"-4.5", "-31.4", "-6.4">>,
     <<"7", "-0.6", "-27.5", "-2.1", "1.000000">>}

Texts == UNION {[1..n -> TallyLines] : n \in 0..MaxLines}

TallyInit ==
    /\ currentBatch = [binPrefix |-> extractBinPrefix(Anchor18),
                       binFile |-> Anchor18, txtFiles |-> <<Member18>>,
                       isProcessing |-> TRUE]
    /\ processedFiles = {Anchor18, Member18}
    /\ batchTimeout = NoTimer
    /\ timers = {}
    /\ inputDir = {Member18}
    /\ binDir = {Anchor18}
    /\ results = <<>>
    /\ tracking = <<>>
    /\ phase = "watching"
    /\ \E text \in Texts :
         run = [IdleRun EXCEPT !.pc = "write", !.by = "timer", !.idx = 1,
                               !.merged = text]
    /\ pollList = NoPoll
    /\ sinceAccept = 0
    /\ runsOfBatch = 1
    /\ active = 1
    /\ envEvents = MaxEnvEvents
    /\ clock = 0
    /\ interrupted = EmptyBatch

TallyNext ==
    \/ FinWrite
    \/ FinLoad
    \/ FinSave
    \/ FinSummarize
    \/ FinReport
    \/ FinReaddir
    \/ FinUnlink

TallySpec == TallyInit /\ [][TallyNext]_vars

(***************************************************************************)
(* Arrivals of files of every name of up to MaxStem characters before the  *)
(* suffix: the watcher runs over an empty batch and is told of an anchor,  *)
(* or of the anchor of batch 1_1 and a member, in either order.            *)
(***************************************************************************)
MaxStem == 4

StemChars == {"1", "_", "q"}

Stems == UNION {[1..n -> StemChars] : n \in 0..MaxStem}

BinNames == {st \o DotBin : st \in Stems}

TxtNames == {st \o DotTxt : st \in Stems}

NameAnchor == <<"1", "_", "1", "_", "q">> \o DotBin

NameInit ==
    /\ currentBatch = EmptyBatch
    /\ processedFiles = {}
    /\ batchTimeout = NoTimer
    /\ timers = {}
    /\ inputDir \in {{a} : a \in BinNames} \cup {{NameAnchor, m} : m \in TxtNames}
    /\ binDir = {}
    /\ results = <<>>
    /\ tracking = <<>>
    /\ phase = "watching"
    /\ run = IdleRun
    /\ pollList = NoPoll
    /\ sinceAccept = -1
    /\ runsOfBatch = 0
    /\ active = 0
    /\ envEvents = MaxEnvEvents
    /\ clock = 0
    /\ interrupted = EmptyBatch

NameNext == \E f \in inputDir : WatchAdd(f)

NameSpec == NameInit /\ [][NameNext]_vars

(***************************************************************************)
(* The comment made of every raw model response of small sets: the run of  *)
(* batch 1_8 awaits generateAIComment, whose model request has completed.  *)
(* Responses are all texts of up to MaxResponse words over ResponseWords,  *)
(* and the texts of up to MaxPlain times the plain word.                   *)
(***************************************************************************)
MaxResponse == 3

MaxPlain == 11

ResponseWords ==
    {<<"r", "o", "a", "d">>, <<"C", "o", "m", "m", "e", "n", "t", ":">>, <<"T", "h", "e">>, <<"*", "*">>, <<"a">>}

Responses ==
    UNION {[1..n -> ResponseWords] : n \in 0..MaxResponse}
      \cup {[i \in 1..n |-> <<"r", "o", "a", "d">>] : n \in 0..MaxPlain}

CommentInit ==
    /\ currentBatch = [binPrefix |-> extractBinPrefix(Anchor18),
                       binFile |-> Anchor18, txtFiles |-> <<Member18>>,
                       isProcessing |-> TRUE]
    /\ processedFiles = {Anchor18, Member18}
    /\ batchTimeout = NoTimer
    /\ timers = {}
    /\ inputDir = {Member18}
    /\ binDir = {Anchor18}
    /\ results = <<>>
    /\ tracking = <<>>
    /\ phase = "watching"
    /\ \E response \in Responses :
         run = [IdleRun EXCEPT
                  !.pc = "summarize", !.by = "timer", !.idx = 1,
                  !.loaded = SetEntry(<<>>, currentBatch.binPrefix,
                                      fileEntry(Content(Member18), 1)),
                  !.currentTime = 1, !.response = response]
    /\ pollList = NoPoll
    /\ sinceAccept = 0
    /\ runsOfBatch = 1
    /\ active = 1
    /\ envEvents = MaxEnvEvents
    /\ clock = 0
    /\ interrupted = EmptyBatch

CommentNext == FinGenerate

CommentSpec == CommentInit /\ [][CommentNext]_vars

(***************************************************************************)
(* The end-to-end scenario of test-sf-tracking.js: the anchor and its      *)
(* three members are in the intake directory when the watcher starts, or   *)
(* are written, anchor first, while it runs; all of them are written and   *)
(* reported before the completion timer of the batch can expire, no I/O    *)
(* call fails, and the directory listing of a poll is handled before any   *)
(* file operation of a finalize run issued after it completes.             *)
(***************************************************************************)
ScenarioInit ==
    /\ currentBatch = EmptyBatch
    /\ processedFiles = {}
    /\ batchTimeout = NoTimer
    /\ timers = {}
    /\ inputDir \in {{}, ScenarioFiles}
    /\ binDir = {}
    /\ results = <<>>
    /\ tracking = <<>>
    /\ phase = "boot"
    /\ run = IdleRun
    /\ pollList = NoPoll
    /\ sinceAccept = -1
    /\ runsOfBatch = 0
    /\ active = 0
    /\ envEvents = MaxEnvEvents
    /\ clock = 0
    /\ interrupted = EmptyBatch

\* createTestWithSFValues writes the anchor, then the members
ScenarioWrite(f) ==
    /\ phase = "watching"
    /\ run.pc = "idle"
    /\ results = <<>>
    /\ f \notin inputDir
    /\ f \in ScenarioMembers => ScenarioAnchor \in inputDir
    /\ inputDir' = inputDir \cup {f}
    /\ UNCHANGED <<clock, interrupted, currentBatch, processedFiles, batchTimeout, timers, binDir,
                   results, tracking, phase, run, pollList, sinceAccept,
                   runsOfBatch, active, envEvents>>

\* time passes for an open batch only once all members have been reported
ScenarioTick ==
    /\ (currentBatch.binPrefix # NULL /\ ~currentBatch.isProcessing)
         => ScenarioMembers \subseteq processedFiles
    /\ Tick

\* the poll callback issues fs.readdir while no finalize run is in progress
ScenarioPollRead ==
    /\ run.pc = "idle"
    /\ PollRead

\* a due timer's callback runs once the pending listing has been handled
ScenarioTimerFire ==
    /\ ~pollList.pending
    /\ TimerFire

ScenarioNext ==
    \/ \E f \in ScenarioFiles : ScenarioWrite(f)
    \/ StartupScan
    \/ \E f \in ScenarioFiles : WatchAdd(f)
    \/ ScenarioPollRead
    \/ PollHandle
    \/ ScenarioTick
    \/ ScenarioTimerFire
    \/ FinMove
    \/ FinRead
    \/ FinWrite
    \/ FinLoad
    \/ FinSave
    \/ FinSummarize
    \/ FinReport
    \/ FinReaddir
    \/ FinUnlink

ScenarioSpec == ScenarioInit /\ [][ScenarioNext]_vars

(***************************************************************************)
(* Progress.  The watcher reports a file once (only a report that records  *)
(* a new path is taken), time goes on however often a poll listing is      *)
(* pending, timers and the poll interval fire, and every file-system call  *)
(* and syncAnnotation complete.  generateAIComment, which sets no timeout  *)
(* on its request, returns under FairSpec and need not under FairIoSpec.   *)
(***************************************************************************)
FirstAdd(f) ==
    /\ WatchAdd(f)
    /\ processedFiles' # processedFiles

LiveNext ==
    \/ \E f \in Files : Drop(f)
    \/ StartupScan
    \/ \E f \in Files : FirstAdd(f)
    \/ PollRead
    \/ PollHandle
    \/ Tick
    \/ TimerFire
    \/ FinMove
    \/ FinRead
    \/ FinWrite
    \/ FinLoad
    \/ FinSave
    \/ FinSummarize
    \/ FinReport
    \/ FinReaddir
    \/ FinUnlink

FairIo ==
    /\ WF_vars(StartupScan)
    /\ WF_vars(PollRead)
    /\ WF_vars(PollHandle)
    /\ SF_vars(Tick)
    /\ WF_vars(TimerFire)
    /\ WF_vars(FinMove)
    /\ WF_vars(FinRead)
    /\ WF_vars(FinWrite)
    /\ WF_vars(FinLoad)
    /\ WF_vars(FinSave)
    /\ WF_vars(FinReport)
    /\ WF_vars(FinReaddir)
    /\ WF_vars(FinUnlink)

FairIoSpec == Init /\ [][LiveNext]_vars /\ FairIo

FairSpec == Init /\ [][LiveNext]_vars /\ FairIo /\ WF_vars(FinSummarize)

(***************************************************************************)
(* Properties.                                                             *)
(***************************************************************************)
Open == currentBatch.binPrefix # NULL /\ ~currentBatch.isProcessing
Finalizing == currentBatch.isProcessing
Empty == currentBatch.binPrefix = NULL
Members == Range(currentBatch.txtFiles)
RunStarts == ~currentBatch.isProcessing /\ currentBatch'.isProcessing
Recognized == {f \in BinFiles : extractBinPrefix(f) # NULL}

\* C1: whatever the interleaving of 'add' events, poll scans, duplicate
\* notifications and timer firings, at most one finalize run is in progress,
\* and at most one finalize run is ever started for a batch opened by an
\* accepted anchor.
C1_SerialFinalize == active <= 1 /\ runsOfBatch <= 1

\* a timer-started finalize run is in progress while another completion
\* timer is pending and the batch's files are still in the intake directory
C1_Witness ==
    /\ active = 1
    /\ runsOfBatch = 1
    /\ run.by = "timer"
    /\ timers # {}
    /\ Members \cap inputDir # {}

\* C2: each newly accepted member restarts the completion countdown at the
\* full timeout, and a finalize run of a batch assembled from watch or poll
\* events starts only when a full timeout has passed since the batch's most
\* recently accepted member.
C2_Debounce ==
    [][ /\ (phase = "watching" /\ Len(currentBatch'.txtFiles) > Len(currentBatch.txtFiles))
           => \E t \in timers' : t.id = batchTimeout' /\ t.left = TimeoutTicks
        /\ (phase = "watching" /\ RunStarts /\ Len(currentBatch.txtFiles) > 0)
           => sinceAccept >= TimeoutTicks ]_vars

\* C3: whenever a finalize run starts, from the startup scan or from a
\* completion timer, the batch holds an anchor and at least one member.
C3_RunHasMember ==
    [][ RunStarts => /\ currentBatch'.binFile # NULL
                     /\ Len(currentBatch'.txtFiles) > 0 ]_vars

\* C4: while a batch is Finalizing no arrival is accepted: the member list
\* is not extended and the dedup set does not change during the run.
C4_ClosedWhileFinalizing ==
    [][ (currentBatch.isProcessing /\ currentBatch'.isProcessing)
        => /\ Len(currentBatch'.txtFiles) = Len(currentBatch.txtFiles)
           /\ Range(currentBatch'.txtFiles) = Members
           /\ processedFiles' = processedFiles ]_vars

\* C5: after any sequence of arrival events, duplicates included, every
\* path occurs at most once in the member list of the batch.
C5_Dedup ==
    \A i, j \in 1..Len(currentBatch.txtFiles) :
        currentBatch.txtFiles[i] = currentBatch.txtFiles[j] => i = j

\* a member is in the batch, is still in the intake directory where the
\* watcher can report it again, and the timer was re-armed by an arrival
\* later than the last acceptance
C5_Witness ==
    /\ Open
    /\ phase = "watching"
    /\ Members # {}
    /\ inputDir \cap TxtFiles \subseteq Members
    /\ inputDir \cap Recognized = {currentBatch.binFile}
    /\ BadAnchor \notin inputDir
    /\ sinceAccept >= 1
    /\ \E t \in timers : t.id = batchTimeout /\ t.left = TimeoutTicks

\* C6: a second recognizable anchor that arrives while a batch is Open is
\* rejected: key, anchor path, member list and pending timer stay as they are.
C6_SecondAnchorRejected ==
    [][ \A f \in Recognized :
          (Open /\ f # currentBatch.binFile /\ WatchAdd(f))
          => /\ currentBatch' = currentBatch
             /\ timers' = timers
             /\ batchTimeout' = batchTimeout ]_vars

\* C7: a recognizable anchor that arrived while another batch was Open or
\* Finalizing, and so never opened a batch of its own, is not removed by the
\* current batch's intake sweep: it stays in the intake directory for a
\* later poll, and leaves it only towards the archive.
C7_AnchorNotSwept ==
    [][ \A f \in Recognized :
          (/\ f \in inputDir
           /\ f \notin inputDir'
           /\ f # currentBatch.binFile
           /\ f \notin processedFiles)
          => f \in binDir' ]_vars

\* C8: a member arrival while no batch is open changes nothing: no batch is
\* opened, member list and dedup set stay empty, no timer is started.
C8_MemberWhileEmpty ==
    [][ /\ \A f \in TxtFiles :
             (Empty /\ WatchAdd(f))
             => UNCHANGED <<currentBatch, processedFiles, timers, batchTimeout>>
        /\ (Empty /\ PollHandle /\ pollList.files \subseteq TxtFiles)
             => UNCHANGED <<currentBatch, processedFiles, timers, batchTimeout>> ]_vars

\* no batch is open and a member file waits in the intake directory of the
\* running watcher
C8_Witness ==
    /\ Empty
    /\ phase = "watching"
    /\ inputDir \cap TxtFiles # {}
    /\ inputDir \cap BinFiles = {}
    /\ processedFiles = {}
    /\ timers = {}

\* the lines of file f occur in the merged text
HasLinesOf(text, f) == \E i \in 1..Len(text) : text[i] \in Range(Content(f))

\* C9: a .txt file whose own prefix differs from the prefix of the open
\* batch is never a member of the batch, and none of its lines is written
\* to <key>_result.txt.
C9_StrictPrefix ==
    /\ \A f \in Members : matchesCurrentBatch(currentBatch.binPrefix, f)
    /\ \A k \in DOMAIN results : \A f \in TxtFiles :
         txtPrefix(f) # k => ~HasLinesOf(results[k], f)

ExpectedCounts ==
    (1 :> 4) @@ (2 :> 2) @@ (3 :> 2) @@ (4 :> 1) @@ (5 :> 1) @@ (6 :> 1) @@ (7 :> 1)

\* C11: in the scenario of anchor 000025_18 with its three members, in
\* whatever order the files are listed or reported, the only output file is
\* 000025_18_result.txt, it holds 12 lines, the tracking entry has the tally
\* {1:4, 2:2, 3:2, 4:1, 5:1, 6:1, 7:1} and totalPoints 12, and a finished
\* run has produced both.
C11_Scenario ==
    /\ DOMAIN results \subseteq {Key25}
    /\ DOMAIN tracking \subseteq {Key25}
    /\ Key25 \in DOMAIN results => Len(results[Key25]) = 12
    /\ Key25 \in DOMAIN tracking =>
         /\ tracking[Key25].sfCounts = ExpectedCounts
         /\ tracking[Key25].totalPoints = 12
    /\ (ScenarioAnchor \in binDir /\ run.pc = "idle") =>
         /\ Key25 \in DOMAIN results
         /\ Key25 \in DOMAIN tracking

\* a timer-started run of the scenario's batch has written the output and
\* the tracking entry for its three members
C11_Witness ==
    /\ run.by = "timer"
    /\ run.pc = "summarize"
    /\ Key25 \in DOMAIN results
    /\ Key25 \in DOMAIN tracking
    /\ currentBatch.binFile = ScenarioAnchor
    /\ Len(currentBatch.txtFiles) = 3

\* the non-blank lines of the files of a sequence, file after file
RECURSIVE MergeOf(_)
MergeOf(paths) ==
    IF paths = <<>> THEN <<>>
    ELSE NonBlank(Content(Head(paths))) \o MergeOf(Tail(paths))

\* the merge of a set of paths taken in ascending order of path
SortedMerge(S) == MergeOf(SortFiles(CHOOSE p \in Perms(S) : TRUE))

\* C12: the text written to <key>_result.txt is the concatenation, in
\* ascending lexicographic order of path, of the non-blank lines of the
\* batch's members (of those that could be read), whatever the order in
\* which the members were accepted.
C12_MergeOrder ==
    [][ (FinWrite /\ currentBatch.binPrefix \in DOMAIN results')
        => \E S \in SUBSET Members :
             results'[currentBatch.binPrefix] = SortedMerge(S) ]_vars

\* the place of a step in processCurrentBatch: 1 anchor relocation, 2 merge
\* and output write (the tally is taken when the write returns), 3 tracking
\* record, 4 summarize, 5 report, 6 intake sweep, 7 state reset
StepRank(pc) ==
    CASE pc = "move" -> 1
      [] pc \in {"read", "write"} -> 2
      [] pc \in {"load", "save"} -> 3
      [] pc = "summarize" -> 4
      [] pc = "report" -> 5
      [] pc \in {"readdir", "unlink"} -> 6
      [] OTHER -> 7

\* C13: the steps of a finalize run follow one another in the order anchor
\* relocation, merge and output write, tally, tracking-record persist,
\* summarize, report, intake sweep, state reset: the run waits at one step
\* at a time and never goes back to an earlier one.
C13_StepOrder ==
    [][ (run.pc # "idle" /\ run' # run)
        => StepRank(run'.pc) >= StepRank(run.pc) ]_vars

\* a run that relocated the anchor, wrote the output and the tracking
\* record and called the report step is sweeping the intake directory
C13_Witness ==
    /\ run.pc = "unlink"
    /\ run.report # "none"
    /\ currentBatch.binFile \in binDir
    /\ currentBatch.binPrefix \in DOMAIN results
    /\ currentBatch.binPrefix \in DOMAIN tracking

\* C14: whether fs.writeFile of the merged output succeeds or fails, the
\* run goes on to the tally and, the tally being non-empty, to the tracking
\* record, summarize and report steps; it then sweeps the intake directory
\* and resets the state.
C14_ContinueAfterWriteFailure ==
    [][ /\ (run.pc = "write" /\ run'.pc # "write")
           => run'.pc = IF HasSFValues(run.merged) THEN "load" ELSE "readdir"
        /\ (run.pc \in {"load", "save", "summarize", "report"} /\ run' # run)
           => run'.pc \in {"save", "summarize", "report", "readdir"}
        /\ (run.pc \in {"readdir", "unlink"} /\ run' # run)
           => \/ run'.pc = "unlink"
              \/ run'.pc = "idle" /\ currentBatch' = EmptyBatch ]_vars

\* syncAnnotation threw or returned false in the run in progress
ReportFailed == run.report \in {"failed", "threw"}

\* C15: when syncAnnotation throws or returns false, the run goes on to
\* the intake sweep, sweeps to the end of the listing and ends with the
\* state reset to Empty.
C15_ReportFailureSwallowed ==
    [][ /\ (run.pc = "report" /\ run' # run) => run'.pc = "readdir"
        /\ (ReportFailed /\ run' # run)
           => \/ run'.pc = "unlink"
              \/ /\ run.pc = "unlink" => Cardinality(run.sweep) = 1
                 /\ run'.pc = "idle"
                 /\ currentBatch' = EmptyBatch
                 /\ processedFiles' = {}
                 /\ active' = 0 ]_vars

\* the sweep is under way in a run whose report step threw
C15_Witness ==
    /\ run.report = "threw"
    /\ run.pc = "unlink"
    /\ currentBatch.isProcessing

\* the tally of the text merged so far by the run in progress is empty
TallyEmpty == DOMAIN countSFValues(run.merged) = {}

\* C16: a run whose merged text has an empty tally goes from the output
\* write straight to the intake sweep: it writes no tracking record and
\* waits on neither summarize nor report, and it ends with the sweep and
\* the state reset.
C16_EmptyTallySkipsTracking ==
    [][ TallyEmpty =>
          /\ (run.pc = "write" /\ run' # run) => run'.pc = "readdir"
          /\ run.pc # "idle" =>
                /\ tracking' = tracking
                /\ run'.pc \notin {"load", "save", "summarize", "report"}
          /\ (run.pc \in {"readdir", "unlink"} /\ run' # run)
                => \/ run'.pc = "unlink"
                   \/ /\ run'.pc = "idle"
                      /\ currentBatch' = EmptyBatch
                      /\ processedFiles' = {} ]_vars

\* the sweep is under way in a run that wrote an output of lines none of
\* which is classifiable
C16_Witness ==
    /\ run.pc = "unlink"
    /\ run.merged # <<>>
    /\ TallyEmpty
    /\ currentBatch.binPrefix \in DOMAIN results
    /\ results[currentBatch.binPrefix] = run.merged

\* C17: when a finalize run ends, whatever its steps did, the state is
\* Empty: key and anchor are null, the member list is empty, isProcessing
\* is false and the dedup set is empty.
C17_ResetAfterRun ==
    [][ (run.pc # "idle" /\ run'.pc = "idle")
        => /\ currentBatch'.binPrefix = NULL
           /\ currentBatch'.binFile = NULL
           /\ currentBatch'.txtFiles = <<>>
           /\ ~currentBatch'.isProcessing
           /\ processedFiles' = {} ]_vars

\* a run has ended that wrote an output although its anchor could not be
\* relocated
C17_Witness ==
    /\ run.pc = "idle"
    /\ phase = "watching"
    /\ currentBatch = EmptyBatch
    /\ processedFiles = {}
    /\ results # <<>>
    /\ binDir = {}

\* C18: at every moment at most one completion timer is pending, timers
\* armed by events that arrive during a finalize run included.
C18_OneTimerPending == Cardinality(timers) <= 1

\* an open batch with its anchor and a member, no further file to arrive
\* and no other recognizable anchor in the intake directory
QuietOpen ==
    /\ Open
    /\ currentBatch.binFile # NULL
    /\ Len(currentBatch.txtFiles) > 0
    /\ phase = "watching"
    /\ envEvents = MaxEnvEvents
    /\ inputDir \cap Recognized \subseteq {currentBatch.binFile}

\* C19: an open batch with an anchor and a member, to which nothing more
\* arrives, is finalized and the state returns to Empty, whatever other
\* files lie in the intake directory.
C19_EventuallyFinalized == QuietOpen ~> Empty

\* C20: a finalize run that waits on generateAIComment goes on, also when
\* the call never returns, to the intake sweep and the state reset.
C20_SummarizeBounded == (run.pc = "summarize") ~> (run.pc = "idle" /\ Empty)

\* C21: when the loaded store already holds a record under the output
\* filename of the batch, the previous timestamp passed to syncAnnotation is
\* the timestamp of that record, not that of the record built by this run
C21_PrevTimeIsPrior ==
    (run.pc = "report" /\ run.priorTime # 0) => run.prevTime = run.priorTime

\* C22: a step that writes sf_tracking.json keeps every key it held, and
\* changes no record but that of the batch being finalized
C22_OtherKeysKept ==
    [][\A k \in DOMAIN tracking :
          /\ k \in DOMAIN tracking'
          /\ k # currentBatch.binPrefix => tracking'[k] = tracking[k]]_vars

\* a line the tally is to count: at least 4 fields, the last one a numeral
Classifiable(line) == Len(line) >= 4 /\ line[Len(line)] \in NumericTokens

\* the lines of a text that are classifiable and carry code c
LinesOfCode(text, c) ==
    {i \in 1..Len(text) : /\ Classifiable(text[i])
                          /\ MathRound(parseFloat(text[i][Len(text[i])])[1]) = c}

\* C23: in the entry built for a merged text the count of each code is the
\* number of classifiable lines that round to it, no other line is counted,
\* and totalPoints is the number of classifiable lines
C23_TallyCountsClassifiable ==
    run.pc = "save" =>
        LET entry == run.loaded[currentBatch.binPrefix]
        IN  /\ \A c \in DOMAIN entry.sfCounts :
                  entry.sfCounts[c] = Cardinality(LinesOfCode(run.merged, c))
            /\ \A i \in 1..Len(run.merged) :
                  Classifiable(run.merged[i]) =>
                      \E c \in DOMAIN entry.sfCounts : i \in LinesOfCode(run.merged, c)
            /\ entry.totalPoints =
                  Cardinality({i \in 1..Len(run.merged) : Classifiable(run.merged[i])})

\* positions i..j of s hold digits only, and at least one
AllDigits(s, i, j) == i <= j /\ j <= Len(s) /\ \A k \in i..j : s[k] \in Digits

\* the ends of a leading run digits "_" digits that a "_" follows
LeadingRunEnds(s) ==
    {j \in 1..(Len(s) - 1) :
        /\ s[j + 1] = "_"
        /\ \E i \in 1..j : /\ AllDigits(s, 1, i)
                            /\ i + 1 <= Len(s) /\ s[i + 1] = "_"
                            /\ AllDigits(s, i + 2, j)}

Seps(s) == {i \in 1..Len(s) : s[i] = "_"}

\* what precedes the last "_" of a name that has one
BeforeLastSep(s) ==
    LET last == CHOOSE i \in Seps(s) : \A j \in Seps(s) : j <= i
    IN  SubSeq(s, 1, last - 1)

C26_FewSeparatorsUngrouped ==
    [][\A f \in inputDir :
          (WatchAdd(f) /\ EndsWith(f, DotTxt) /\ Cardinality(Seps(f)) <= 1)
          => /\ txtPrefix(f) = NULL
             /\ currentBatch'.txtFiles = currentBatch.txtFiles]_vars

\* the members of the batch the process was stopped in that are still in
\* the intake directory
LeftBehind == Range(interrupted.txtFiles) \cap inputDir

\* C27: the startup scan that follows a stop in the middle of a batch forms
\* a batch under the same key again, holding the members still present,
\* and starts its finalize run
C27_RestartRecovers ==
    [][(StartupScan /\ interrupted.binPrefix # NULL /\ LeftBehind # {})
          => /\ currentBatch'.binPrefix = interrupted.binPrefix
             /\ currentBatch'.isProcessing
             /\ LeftBehind \subseteq Range(currentBatch'.txtFiles)]_vars

\* C28: a completion timer armed by the 'add' handler or by the poll
\* callback runs for BATCH_TIMEOUT_MS, the configured value
C28_ConfiguredTimeout ==
    [][(((\E f \in Files : WatchAdd(f)) \/ PollHandle)
           /\ batchTimeout' # NoTimer /\ timers' # timers)
          => \E t \in timers' : /\ t.id = batchTimeout'
                                /\ t.left * TickMs = BATCH_TIMEOUT_MS]_vars

\* the members a run has read so far, in the order it read them
ReadSoFar(cb, r) ==
    FilterSeq(SubSeq(cb.txtFiles, 1, IF r.pc = "read" THEN r.idx - 1 ELSE r.idx),
              Range(cb.txtFiles) \ r.unread)

\* C29: a member whose read fails adds nothing and the loop goes on; after
\* the last member the text holds the non-blank lines of the members that
\* were read, in the order of the files and of their lines, and that text
\* is what fs.writeFile puts into <key>_result.txt
C29_UnreadableSkipped ==
    [][/\ FinRead => /\ run'.pc \in {"read", "write"}
                     /\ run'.pc = "write" <=> run.idx >= Len(currentBatch.txtFiles)
                     /\ run'.merged = MergeOf(ReadSoFar(currentBatch', run'))
       /\ (FinWrite /\ results' # results)
            => results'[currentBatch.binPrefix] = MergeOf(ReadSoFar(currentBatch, run))]_vars

\* the result file was written from a merge in which one member could not
\* be read and another one gave its lines
C29_Witness ==
    /\ run.pc \in {"load", "readdir"}
    /\ run.unread # {}
    /\ run.merged # <<>>
    /\ currentBatch.binPrefix \in DOMAIN results
    /\ results[currentBatch.binPrefix] = run.merged

\* C30: when generateAIComment throws, the comment is the default string,
\* and with the sheet configured syncAnnotation is called, with that comment
C30_DefaultCommentOnThrow ==
    [][(FinSummarize /\ run'.threw)
          => /\ run'.aiComment = DefaultComment
             /\ run'.configured => run'.pc = "report"]_vars

\* syncAnnotation is being called with the default comment after
\* generateAIComment threw
C30_Witness ==
    /\ run.pc = "report"
    /\ run.threw
    /\ run.aiComment = DefaultComment

\* C31: the time taken that is written to column V is the time from the
\* previous timestamp to the current one, in minutes (here in tenths)
C31_TimeTakenIsElapsed ==
    run.report = "ok" =>
        run.values.timeTaken = 10 * (run.currentTime - run.prevTime)

\* C32: an 'add' event or a poll pass that accepts nothing (the batch and
\* the dedup set stay as they were) leaves the pending timers, their
\* remaining time and the handle as they were
C32_TimerKeptOnRejection ==
    [][(((\E f \in Files : WatchAdd(f)) \/ PollHandle)
           /\ currentBatch' = currentBatch /\ processedFiles' = processedFiles)
          => (timers' = timers /\ batchTimeout' = batchTimeout)]_vars

\* C33: in the entry built for a merged text the count of each category is
\* the sum of the counts of the codes that map to it, and the counts of the
\* categories add up to totalPoints
C33_CategoriesSumCodes ==
    run.pc = "save" =>
        LET entry == run.loaded[currentBatch.binPrefix]
        IN  /\ \A cat \in DOMAIN entry.sfCategories :
                  entry.sfCategories[cat] =
                      SumCounts(entry.sfCounts,
                                {c \in DOMAIN entry.sfCounts : categoryOf(c) = cat})
            /\ SumCounts(entry.sfCategories, DOMAIN entry.sfCategories)
                  = entry.totalPoints

\* C34: the anchor of the batch leaves the intake directory only into the
\* archive directory; when its relocation failed it stays in the intake
C34_AnchorNeverDestroyed ==
    [][(/\ currentBatch.binFile # NULL
        /\ currentBatch.binFile \in inputDir
        /\ currentBatch.binFile \notin inputDir')
          => currentBatch.binFile \in binDir']_vars

\* C35: a member-type file that the sweep of a run deletes, and whose read
\* did not fail, has its non-blank lines in the output file of the batch
C35_NoMemberDeletedUnmerged ==
    [][\A f \in TxtFiles :
          (FinUnlink /\ f \in inputDir /\ f \notin inputDir' /\ f \notin run.unread)
          => /\ currentBatch.binPrefix \in DOMAIN results
             /\ HasLinesOf(results[currentBatch.binPrefix], f)]_vars

\* the recognizable anchor that a listing holds last
LastRecognized(files) ==
    LET anchors == FilterSeq(files, Recognized) IN anchors[Len(anchors)]

\* the anchors of the intake directory other than that of the batch
OtherAnchors == (Recognized \cap inputDir) \ {currentBatch.binFile}

C37_EarlyMemberRecovered ==
    (Open /\ Member18 \in inputDir /\ Member18 \notin processedFiles)
      ~> (Finalizing /\ run.pc = "move" /\ Member18 \in Members)

\* C38: the batch record is well formed in every reachable state: the key
\* is set exactly when the anchor path is set, a batch with members or with
\* a run in progress has a key, and processedFiles holds the anchor path
\* and every member path
C38_BatchWellFormed ==
    /\ (currentBatch.binPrefix # NULL) <=> (currentBatch.binFile # NULL)
    /\ (Len(currentBatch.txtFiles) > 0 \/ currentBatch.isProcessing)
          => currentBatch.binPrefix # NULL
    /\ currentBatch.binFile # NULL => currentBatch.binFile \in processedFiles
    /\ Members \subseteq processedFiles

\* a run is in progress for a batch that accepted a member while the run
\* was in progress
C38_Witness ==
    /\ Finalizing
    /\ run.pc \in {"read", "write", "readdir", "unlink"}
    /\ Len(currentBatch.txtFiles) >= 2
    /\ currentBatch.binFile \in binDir

\* C39: in the row sent for a tally, the mark of the column of each code c
\* of 1..7 is "O" exactly when the tally holds a count above 0 for c, and
\* "X" otherwise, so that counts of code 0 and of codes outside 1..7 change
\* no mark
C39_MarksFollowCounts ==
    run.report = "ok" =>
        LET sfCounts == run.loaded[currentBatch.binPrefix].sfCounts
        IN  \A c \in 1..7 :
              run.values.marks[CATEGORY_COLUMNS[c]] =
                  IF c \in DOMAIN sfCounts /\ sfCounts[c] > 0 THEN "O" ELSE "X"

\* C40: the comment that cleanAIResponse returns for a raw model response,
\* the empty response and a response of one word included, has at least 10
\* words
C40_CommentHasTenWords ==
    run.pc = "report" => Len(run.cleaned) >= 10
====
